---- MODULE Spec2Model ----
(***************************************************************************)
(* Grocery Shop API (src/main.py, src/schemas.py): the three collections   *)
(* product / slot / order of the document store, POST /seed and            *)
(* POST /orders.                                                           *)
(*                                                                         *)
(* Money is counted in mills (1/1000 of the currency unit), so that        *)
(* round(total, 2) is a real rounding to a multiple of 10 mills.           *)
(* An identifier string is the pair <<"oid", n>> when it is the 24-digit   *)
(* hex form of ObjectId n, and <<"str", n>> when ObjectId() rejects it.    *)
(*                                                                         *)
(* Two specifications:                                                     *)
(*   SeqSpec  requests are served one after the other (each handler runs   *)
(*            to completion before the next request starts);               *)
(*   Spec     POST /orders requests run concurrently in worker threads,    *)
(*            interleaved at the database calls of create_order.           *)
(***************************************************************************)
EXTENDS Integers, Sequences, FiniteSets, TLC

VARIABLES product, slot, order, th, last, slot0

vars == <<product, slot, order, th, last, slot0>>

\* ---------------------------------------------------------------- bounds

\* Orders a behaviour may place (the order collection is unbounded): a
\* request that would store one more is not taken; rejections always are.
\* MaxOrders bounds the sequential specification, MaxConcurrentOrders the
\* concurrent one.
MaxOrders == 1

MaxConcurrentOrders == 2

\* The worker threads of the concurrent specification.
Threads == {"t1", "t2"}

\* ------------------------------------------------------------ identifiers

Hex(n) == <<"oid", n>>

NoStr == <<"", 0>>

Malformed == <<"str", 0>>

\* oid(id_str): ObjectId(id_str), or HTTP 400 when the string is malformed.
oid(id_str) ==
    IF id_str[1] = "oid" THEN [ok |-> TRUE, id |-> id_str[2]]
    ELSE [ok |-> FALSE, id |-> 0]

\* ------------------------------------------------------------- documents

Ids(coll) == {d._id : d \in coll}

MaxId(coll) == IF coll = {} THEN 0 ELSE CHOOSE n \in Ids(coll) : \A m \in Ids(coll) : m <= n

\* create_document(collection, data): the document is stored under a fresh
\* _id and every earlier document is kept.
create_document(coll, doc) == coll \cup {[doc EXCEPT !._id = MaxId(coll) + 1]}

ProductDoc(p) ==
    [_id |-> 0, name |-> p.name, price |-> p.price, unit |-> p.unit, in_stock |-> p.in_stock]

SlotDoc(s) ==
    [_id |-> 0, label |-> s.label, capacity |-> s.capacity, booked |-> s.booked]

\* for d in docs: create_document(collection, d)
RECURSIVE InsertEach(_, _, _)
InsertEach(coll, docs, i) ==
    IF i > Len(docs) THEN coll
    ELSE InsertEach(create_document(coll, docs[i]), docs, i + 1)

\* The demo catalog of seed() (prices 0.79, 2.49, 1.99, 3.49).
DemoProducts ==
    << ProductDoc([name |-> "Bananas", price |-> 790, unit |-> "each", in_stock |-> TRUE]),
       ProductDoc([name |-> "Milk", price |-> 2490, unit |-> "1L", in_stock |-> TRUE]),
       ProductDoc([name |-> "Bread", price |-> 1990, unit |-> "loaf", in_stock |-> TRUE]),
       ProductDoc([name |-> "Eggs", price |-> 3490, unit |-> "12", in_stock |-> TRUE]) >>

\* The demo pickup slots of seed().
DemoSlots ==
    << SlotDoc([label |-> "Today 10:00-10:30", capacity |-> 10, booked |-> 0]),
       SlotDoc([label |-> "Today 10:30-11:00", capacity |-> 10, booked |-> 0]),
       SlotDoc([label |-> "Today 5:00-5:30", capacity |-> 12, booked |-> 0]),
       SlotDoc([label |-> "Tomorrow 10:00-10:30", capacity |-> 10, booked |-> 0]),
       SlotDoc([label |-> "Tomorrow 5:00-5:30", capacity |-> 12, booked |-> 0]) >>

\* ------------------------------------------------------------- responses

Response(op, status, msg, about, order_id, total, verified) ==
    [op |-> op, status |-> status, detail |-> msg, about |-> about,
     order_id |-> order_id, total |-> total, verified |-> verified]

NoResponse == Response("none", 0, "", NoStr, 0, 0, 0)

SeedComplete == Response("seed", 200, "Seed complete", NoStr, 0, 0, 0)

InvalidId(verified) == Response("order", 400, "Invalid ID format", NoStr, 0, 0, verified)

SlotNotFound == Response("order", 404, "Slot not found", NoStr, 0, 0, 0)

SlotFull == Response("order", 400, "Selected slot is full", NoStr, 0, 0, 0)

ProductNotFound(product_id, verified) ==
    Response("order", 404, "Product not found", product_id, 0, 0, verified)

Confirmed(order_id, total, verified) ==
    Response("order", 200, "confirmed", NoStr, order_id, total, verified)

\* ------------------------------------------------------------------ seed

SeedProductsAlways(coll) == InsertEach(coll, DemoProducts, 1)

\* seed(), first half: the demo products, only into an empty collection.
SeedProducts(coll) ==
    IF Cardinality(coll) = 0 THEN InsertEach(coll, DemoProducts, 1) ELSE coll

\* seed(), second half: the demo slots, only into an empty collection.
SeedSlots(coll) ==
    IF Cardinality(coll) = 0 THEN InsertEach(coll, DemoSlots, 1) ELSE coll

\* POST /seed
Seed ==
    /\ product' = SeedProducts(product)
    /\ slot' = SeedSlots(slot)
    /\ last' = SeedComplete
    /\ UNCHANGED <<order, th, slot0>>

\* ------------------------------------------------------- order placement

\* A CreateOrderRequest and its OrderItem list (qty >= 1 by the schema).
OrderItem(product_id, qty) == [product_id |-> product_id, qty |-> qty]

Payload(slot_id, items) ==
    [customer_name |-> "Ann", phone |-> "555", slot_id |-> slot_id, items |-> items, note |-> ""]

Max(a, b) == IF a >= b THEN a ELSE b

\* available = max(capacity - booked, 0)
available(s) == Max(s.capacity - s.booked, 0)

IsFullNever(s) == available(s) < 0

\* if available <= 0: raise 400 "Selected slot is full"
IsFull(s) == available(s) <= 0

\* The slot lookup and capacity check that open create_order.
CheckSlot(slot_id) ==
    LET o == oid(slot_id)
        found == {d \in slot : d._id = o.id}
    IN  IF ~o.ok THEN [resp |-> InvalidId(0), id |-> 0]
        ELSE IF found = {} THEN [resp |-> SlotNotFound, id |-> 0]
        ELSE LET s == CHOOSE d \in found : TRUE
             IN  IF IsFull(s) THEN [resp |-> SlotFull, id |-> 0]
                 ELSE [resp |-> Confirmed(NoStr, 0, 0), id |-> s._id]

\* One entry of items_doc: the product's name, unit and price snapshotted.
ItemDocNoQty(item, prod) ==
    [product_id |-> item.product_id, name |-> prod.name, unit |-> prod.unit,
     price |-> prod.price, qty |-> item.qty, line_total |-> prod.price]

ItemDoc(item, prod) ==
    [product_id |-> item.product_id, name |-> prod.name, unit |-> prod.unit,
     price |-> prod.price, qty |-> item.qty, line_total |-> prod.price * item.qty]

\* The loop with the failing items skipped instead of raising.
RECURSIVE VerifyItemsSkip(_, _, _, _)
VerifyItemsSkip(items, i, total, items_doc) ==
    IF i > Len(items) THEN [resp |-> Confirmed(NoStr, total, Len(items_doc)), items |-> items_doc]
    ELSE LET item == items[i]
             o == oid(item.product_id)
             found == {d \in product : d._id = o.id /\ d.in_stock}
         IN  IF ~o.ok \/ found = {} THEN VerifyItemsSkip(items, i + 1, total, items_doc)
             ELSE LET prod == CHOOSE d \in found : TRUE
                      doc == ItemDoc(item, prod)
                  IN  VerifyItemsSkip(items, i + 1, total + doc.line_total, Append(items_doc, doc))

\* The loop over payload.items: each product looked up with in_stock = True,
\* total accumulated, items_doc appended to; the first failure raises.
RECURSIVE VerifyItems(_, _, _, _)
VerifyItems(items, i, total, items_doc) ==
    IF i > Len(items) THEN [resp |-> Confirmed(NoStr, total, Len(items_doc)), items |-> items_doc]
    ELSE LET item == items[i]
             o == oid(item.product_id)
             found == {d \in product : d._id = o.id /\ d.in_stock}
         IN  IF ~o.ok THEN [resp |-> InvalidId(Len(items_doc)), items |-> items_doc]
             ELSE IF found = {}
             THEN [resp |-> ProductNotFound(item.product_id, Len(items_doc)), items |-> items_doc]
             ELSE LET prod == CHOOSE d \in found : TRUE
                      doc == ItemDoc(item, prod)
                  IN  VerifyItems(items, i + 1, total + doc.line_total, Append(items_doc, doc))

\* The products verified before the slot is looked at.
ValidateProductsFirst(payload) ==
    LET v == VerifyItems(payload.items, 1, 0, <<>>)
        c == CheckSlot(payload.slot_id)
    IN  IF v.resp.status # 200 THEN [resp |-> v.resp, id |-> 0, items |-> v.items]
        ELSE IF c.resp.status # 200 THEN [resp |-> c.resp, id |-> 0, items |-> <<>>]
        ELSE [resp |-> v.resp, id |-> c.id, items |-> v.items]

\* Everything create_order does before its first write: the slot check, then
\* the product loop.  resp.total is the unrounded total.
Validate(payload) ==
    LET c == CheckSlot(payload.slot_id)
    IN  IF c.resp.status # 200 THEN [resp |-> c.resp, id |-> 0, items |-> <<>>]
        ELSE LET v == VerifyItems(payload.items, 1, 0, <<>>)
             IN  [resp |-> v.resp, id |-> c.id, items |-> v.items]

\* round(total, 2): the nearest multiple of 10 mills.  On an exact tie the
\* binary value of the float decides, so either neighbour may come out.
Round2(m) ==
    LET r == m % 10
    IN  IF r < 5 THEN {m - r} ELSE IF r > 5 THEN {m - r + 10} ELSE {m - 5, m + 5}

\* order_doc
OrderDoc(payload, items_doc, total) ==
    [_id |-> 0, customer_name |-> payload.customer_name, phone |-> payload.phone,
     slot_id |-> payload.slot_id, items |-> items_doc, note |-> payload.note,
     total |-> total, status |-> "confirmed"]

IncBookedAll(coll, id) == {[d EXCEPT !.booked = @ + 1] : d \in coll}

IncBookedGuarded(coll, id) ==
    {IF d._id = id /\ d.booked < d.capacity THEN [d EXCEPT !.booked = @ + 1] ELSE d : d \in coll}

\* db["slot"].update_one({"_id": slot["_id"]}, {"$inc": {"booked": 1}})
IncBooked(coll, id) ==
    {IF d._id = id THEN [d EXCEPT !.booked = @ + 1] ELSE d : d \in coll}

\* The booking counted as soon as the slot has space, before the products
\* are verified.
create_order_inc_first(payload) ==
    LET c == CheckSlot(payload.slot_id)
        v == Validate(payload)
    IN  {[resp |-> v.resp, order |-> order,
          slot |-> IF c.resp.status = 200 THEN IncBooked(slot, c.id) ELSE slot]}

\* create_order(payload) run to completion on the current collections: the
\* response and the order and slot collections it leaves.
create_order(payload) ==
    LET v == Validate(payload)
    IN  IF v.resp.status # 200 THEN {[resp |-> v.resp, order |-> order, slot |-> slot]}
        ELSE {LET order1 == create_document(order, OrderDoc(payload, v.items, t))
              IN  [resp |-> Confirmed(Hex(MaxId(order1)), t, Len(v.items)),
                   order |-> order1, slot |-> IncBooked(slot, v.id)]
              : t \in Round2(v.resp.total)}

\* --------------------------------------------------------------- inputs

\* Slot 6 and product 5 exist in no store of the model, seeded or stocked.
ReqSlotIds == {Malformed, Hex(1), Hex(2), Hex(6)}

ReqItems ==
    {OrderItem(Hex(1), 1), OrderItem(Hex(1), 2), OrderItem(Hex(2), 1),
     OrderItem(Malformed, 1), OrderItem(Hex(3), 1), OrderItem(Hex(5), 1)}

ItemLists == {<<>>} \cup {<<a>> : a \in ReqItems} \cup {<<a, b>> : a, b \in ReqItems}

Payloads == {Payload(s, l) : s \in ReqSlotIds, l \in ItemLists}

\* A store that was filled by hand: a sub-cent price, an out-of-stock product.
StockedProducts ==
    {[_id |-> 1, name |-> "Apples", price |-> 335, unit |-> "kg", in_stock |-> TRUE],
     [_id |-> 2, name |-> "Berries", price |-> 792, unit |-> "each", in_stock |-> TRUE],
     [_id |-> 3, name |-> "Cherries", price |-> 2490, unit |-> "box", in_stock |-> FALSE]}

OpenSlots ==
    {{[_id |-> 1, label |-> "Today 4:00-4:30", capacity |-> 2, booked |-> b1],
      [_id |-> 2, label |-> "Today 4:30-5:00", capacity |-> 1, booked |-> b2]}
     : b1 \in 0..2, b2 \in 0..1}

\* ------------------------------------------------- sequential requests

IdleThread == [pc |-> "idle", slot_id |-> 0, doc |-> OrderDoc(Payload(NoStr, <<>>), <<>>, 0)]

SeqInit ==
    /\ product \in {{}, StockedProducts}
    /\ slot \in {{}} \cup OpenSlots
    /\ order = {}
    /\ th = [t \in Threads |-> IdleThread]
    /\ last = NoResponse
    /\ slot0 = slot

\* POST /orders, served alone.
PostOrders(payload) ==
    /\ \E r \in create_order(payload) :
          /\ Cardinality(r.order) <= MaxOrders
          /\ order' = r.order
          /\ slot' = r.slot
          /\ last' = r.resp
    /\ UNCHANGED <<product, th, slot0>>

SeqNext ==
    \/ Seed
    \/ \E payload \in Payloads : PostOrders(payload)

SeqSpec == SeqInit /\ [][SeqNext]_vars

\* ------------------------------------------------- concurrent requests

\* The requests of the concurrent specification: an empty list, one item,
\* two items, a product that is out of stock.
ConcPayloads ==
    {Payload(s, l) : s \in {Hex(1), Hex(2), Hex(6)},
                     l \in {<<>>, <<OrderItem(Hex(1), 2)>>, <<OrderItem(Hex(3), 1)>>,
                            <<OrderItem(Hex(1), 1), OrderItem(Hex(2), 1)>>}}

InFlight == {t \in Threads : th[t].pc # "idle"}

Init ==
    /\ product = StockedProducts
    /\ slot \in OpenSlots
    /\ order = {}
    /\ th = [t \in Threads |-> IdleThread]
    /\ last = NoResponse
    /\ slot0 = slot

\* A worker thread takes a request and runs create_order up to its first
\* write: the reads of the slot and of the products.  A rejection is
\* answered at once.
Receive(t, payload) ==
    /\ th[t].pc = "idle"
    /\ LET v == Validate(payload)
       IN  IF v.resp.status # 200
           THEN /\ last' = v.resp
                /\ UNCHANGED th
           ELSE /\ Cardinality(order) + Cardinality({u \in Threads : th[u].pc = "insert"})
                      < MaxConcurrentOrders
                /\ \E total \in Round2(v.resp.total) :
                     th' = [th EXCEPT ![t] = [pc |-> "insert", slot_id |-> v.id,
                                               doc |-> OrderDoc(payload, v.items, total)]]
                /\ UNCHANGED last
    /\ UNCHANGED <<product, slot, order, slot0>>

\* order_id = create_document("order", order_doc)
InsertOrder(t) ==
    /\ th[t].pc = "insert"
    /\ order' = create_document(order, th[t].doc)
    /\ th' = [th EXCEPT ![t].pc = "inc", ![t].doc._id = MaxId(order')]
    /\ UNCHANGED <<product, slot, last, slot0>>

\* The increment of the slot's booked count, and the response.
IncrementBooked(t) ==
    /\ th[t].pc = "inc"
    /\ slot' = IncBooked(slot, th[t].slot_id)
    /\ last' = Confirmed(Hex(th[t].doc._id), th[t].doc.total, Len(th[t].doc.items))
    /\ th' = [th EXCEPT ![t] = IdleThread]
    /\ UNCHANGED <<product, order, slot0>>

Next ==
    \/ \E t \in Threads, payload \in ConcPayloads : Receive(t, payload)
    \/ \E t \in Threads : InsertOrder(t)
    \/ \E t \in Threads : IncrementBooked(t)

Spec == Init /\ [][Next]_vars

\* ---------------------------------------------------------- properties

OrdersOf(s) == {o \in order : o.slot_id = Hex(s._id)}

Booked0(s) == IF \E d \in slot0 : d._id = s._id
              THEN (CHOOSE d \in slot0 : d._id = s._id).booked ELSE 0

RECURSIVE SumLines(_, _)
SumLines(items, i) ==
    IF i > Len(items) THEN 0 ELSE items[i].price * items[i].qty + SumLines(items, i + 1)

\* The item names a well-formed identifier under which no in-stock product
\* is stored (no such product, or in_stock false).
Unavailable(item) ==
    /\ item.product_id[1] = "oid"
    /\ ~ \E d \in product : Hex(d._id) = item.product_id /\ d.in_stock

Orderable(item) == \E d \in product : Hex(d._id) = item.product_id /\ d.in_stock

\* The slot of the request exists and has space left.
SlotOpen(payload) == \E s \in slot : Hex(s._id) = payload.slot_id /\ s.booked < s.capacity

C2_RejectionWritesNothing ==
    [][(last'.op = "order" /\ last'.status # 200)
        => /\ order' = order /\ slot' = slot /\ product' = product
           /\ last'.detail \in {"Invalid ID format", "Slot not found",
                                "Selected slot is full", "Product not found"}]_vars

C2_Witness ==
    /\ last.op = "order" /\ last.status = 404 /\ last.detail = "Product not found"
    /\ last.verified = 1 /\ order # {}

\* C3: a step that answers POST /orders with success adds exactly one order
\* document, with status "confirmed", adds 1 to the booked count of the slot
\* that order names, and changes no other slot, no capacity and no product.
C3_SuccessFrame ==
    [][(last'.op = "order" /\ last'.status = 200)
        => /\ product' = product
           /\ \E o \in order' :
                /\ o \notin order /\ order' = order \cup {o}
                /\ o.status = "confirmed" /\ Hex(o._id) = last'.order_id
                /\ \E s \in slot : Hex(s._id) = o.slot_id
                /\ Cardinality(slot') = Cardinality(slot)
                /\ \A d \in slot : \E e \in slot' :
                      /\ e._id = d._id /\ e.capacity = d.capacity /\ e.label = d.label
                      /\ e.booked = IF Hex(d._id) = o.slot_id THEN d.booked + 1 ELSE d.booked]_vars

C3_Witness ==
    /\ last.op = "order" /\ last.status = 200
    /\ order # {} /\ Cardinality(slot) >= 2

\* C4: whenever a stored slot has booked >= capacity, every request naming
\* it, whatever its items, is answered 400 "Selected slot is full" and leaves
\* the order and slot collections unchanged.
C4_FullSlotRejects ==
    \A payload \in Payloads : \A s \in slot :
        (payload.slot_id = Hex(s._id) /\ s.booked >= s.capacity)
        => /\ Validate(payload).resp = SlotFull
           /\ create_order(payload) = {[resp |-> SlotFull, order |-> order, slot |-> slot]}

C4_Witness ==
    /\ last = SlotFull
    /\ \E s \in slot : /\ s.booked > s.capacity
                       /\ \A e \in slot \ {s} : e.booked < e.capacity

\* C5 as stated: a request with an item whose product does not exist or is
\* out of stock is always answered ProductNotFound naming such an item, and
\* writes nothing.
C5_AlwaysProductNotFound ==
    \A payload \in Payloads :
        (\E i \in 1..Len(payload.items) : Unavailable(payload.items[i]))
        => \A r \in create_order(payload) :
              /\ r.resp.status = 404 /\ r.resp.detail = "Product not found"
              /\ \E i \in 1..Len(payload.items) :
                    Unavailable(payload.items[i]) /\ r.resp.about = payload.items[i].product_id
              /\ r.order = order /\ r.slot = slot

\* C5 amended: such a request is always rejected and writes nothing; it is
\* answered ProductNotFound, naming the first such item, when the slot exists
\* with space left and every earlier item is orderable.
C5_RejectedAllOrNothing ==
    \A payload \in Payloads : \A i \in 1..Len(payload.items) :
        Unavailable(payload.items[i])
        => \A r \in create_order(payload) :
              /\ r.resp.status # 200 /\ r.order = order /\ r.slot = slot
              /\ (SlotOpen(payload) /\ \A j \in 1..(i - 1) : Orderable(payload.items[j]))
                 => r.resp = ProductNotFound(payload.items[i].product_id, i - 1)

C5_Witness ==
    /\ last.op = "order" /\ last.status = 404 /\ last.detail = "Product not found"
    /\ last.verified = 1
    /\ \E s \in slot : s.booked < s.capacity

\* C6: every stored order's total is the sum of price x qty over its items,
\* at the products' stored prices, rounded to a whole number of cents; each
\* line_total is the snapshotted price x qty; the total returned is the
\* total stored.
C6_TotalIsRoundedSum ==
    /\ \A o \in order :
          /\ \A i \in 1..Len(o.items) :
                /\ o.items[i].line_total = o.items[i].price * o.items[i].qty
                /\ \E d \in product : /\ Hex(d._id) = o.items[i].product_id
                                      /\ d.price = o.items[i].price
          /\ o.total % 10 = 0
          /\ o.total - SumLines(o.items, 1) \in -5..5
    /\ (last.op = "order" /\ last.status = 200)
       => \E o \in order : Hex(o._id) = last.order_id /\ o.total = last.total

C6_Witness ==
    /\ last.op = "order" /\ last.status = 200
    /\ \E o \in order :
          /\ Hex(o._id) = last.order_id
          /\ Len(o.items) = 2 /\ o.items[1].price # o.items[2].price
          /\ \E i \in 1..2 : o.items[i].qty = 2
          /\ o.total # SumLines(o.items, 1)

DistinctNames == \A d, e \in product : d # e => d.name # e.name

DistinctLabels == \A d, e \in slot : d # e => d.label # e.label

\* C7: a POST /seed leaves a non-empty product collection and a non-empty
\* slot collection as they are, so a seed that follows a seed changes
\* nothing, and no seed leaves two products of one name or two slots of one
\* label.
C7_SeedIdempotent ==
    [][(last'.op = "seed")
        => /\ (product # {} => product' = product)
           /\ (slot # {} => slot' = slot)
           /\ (last.op = "seed" => (product' = product /\ slot' = slot))
           /\ DistinctNames' /\ DistinctLabels'
           /\ order' = order]_vars

C7_Witness ==
    /\ last.op = "seed" /\ order # {}
    /\ Cardinality(product) = Len(DemoProducts)
    /\ Cardinality(slot) = Len(DemoSlots)
    /\ \E s \in slot : s.booked = 1

\* C8: with requests running concurrently, every request that passed the
\* capacity check persists its order and then adds 1 to booked, whatever
\* the count has become meanwhile: in every state each slot's booked count,
\* plus the requests that have inserted and not yet incremented, is its
\* initial count plus its persisted orders.  The witness is the over-booked
\* slot: one space left at the start, two orders persisted, booked =
\* capacity + 1.
C8_EveryAdmittedOrderCounts ==
    \A s \in slot :
        s.booked + Cardinality({t \in Threads : th[t].pc = "inc" /\ th[t].slot_id = s._id})
            = Booked0(s) + Cardinality(OrdersOf(s))

C8_Overbooked ==
    /\ InFlight = {}
    /\ \E s \in slot : /\ Booked0(s) = s.capacity - 1
                       /\ Cardinality(OrdersOf(s)) = 2
                       /\ s.booked = s.capacity + 1

\* C9: in every state each slot's booked count is its initial count plus
\* the number of persisted orders that name the slot.
C9_BookingAtomic ==
    \A s \in slot : s.booked = Booked0(s) + Cardinality(OrdersOf(s))

\* C10: every persisted order has at least one item.
C10_OrdersHaveItems == \A o \in order : Len(o.items) >= 1

====
